---- MODULE Spec2Model ----
(***************************************************************************)
(* Model of lib/docbookify-options-json.py: two option catalogs are        *)
(* pivoted by `loc`, the override catalog is merged onto the primary one,  *)
(* the result is un-pivoted by `name`, every option's documentation        *)
(* fields are converted to DocBook and the catalog is dumped to stdout.    *)
(*                                                                         *)
(* A Python str is a sequence of tokens: a token is a whitespace character *)
(* (" ", "\n", "\t") or a run of characters holding no whitespace, with    *)
(* every markup tag a token of its own.  A JSON value carries its Python   *)
(* type with it.                                                           *)
(***************************************************************************)
EXTENDS Integers, Sequences, FiniteSets, TLC

\* ------------------------------------------------------------ JSON values

\* <<type, value>>: the Python type of the value first.
JNull == <<"NoneType">>
JStr(s) == <<"str", s>>
JList(l) == <<"list", l>>
JDict(d) == <<"dict", d>>

TypeOf(x) == x[1]
Val(x) == x[2]

\* d[key] of a dict, l[j] of a list.
Get(d, key) == d[2][key]

\* A one-token string, the common case of names, types and file references.
S(tok) == JStr(<<tok>>)

\* `key in d` and d[key] of a Python dict held as a TLA+ function.
Has(d, key) == key \in DOMAIN Val(d)

\* d[key] = val (assignment to a dict item, adding the key when absent).
SetItem(d, key, val) ==
    JDict([f \in (DOMAIN Val(d)) \cup {key} |-> IF f = key THEN val ELSE Get(d, f)])

\* ---------------------------------------------------------------- strings

Whitespace == {" ", "\n", "\t"}

RECURSIVE rstrip(_)
rstrip(s) ==
    IF s # <<>> /\ s[Len(s)] \in Whitespace
    THEN rstrip(SubSeq(s, 1, Len(s) - 1))
    ELSE s

\* text[len(text.rstrip()):]
Trailer(text) == SubSeq(text, Len(rstrip(text)) + 1, Len(text))

removeprefix(s, p) ==
    IF Len(s) >= Len(p) /\ SubSeq(s, 1, Len(p)) = p
    THEN SubSeq(s, Len(p) + 1, Len(s))
    ELSE s

removesuffix(s, p) ==
    IF Len(s) >= Len(p) /\ SubSeq(s, Len(s) - Len(p) + 1, Len(s)) = p
    THEN SubSeq(s, 1, Len(s) - Len(p))
    ELSE s

\* ------------------------------------------------------------- exceptions

NoExc == [exc |-> "none"]
Raise(kind, args) == [exc |-> kind, args |-> args]

\* ------------------------------------------------------- class Key, dicts

RECURSIVE Xor(_, _)
Xor(a, b) ==
    IF a = 0 THEN b
    ELSE IF b = 0 THEN a
    ELSE ((a + b) % 2) + 2 * Xor(a \div 2, b \div 2)

\* hash() of a str: some fixed function of the string; two of the segments
\* the model uses are given the same hash so that unequal keys can collide.
StrHash(s) == IF s = S("a") THEN 1 ELSE IF s = S("b") THEN 2 ELSE 1

Key(path) == [path |-> path]

RECURSIVE XorHashes(_, _)
XorHashes(ids, result) ==
    IF ids = <<>> THEN result
    ELSE XorHashes(Tail(ids), Xor(result, StrHash(Head(ids))))

\* Key.__hash__
KeyHash(key) == XorHashes(Val(key.path), 0)

\* Key.__eq__ (both operands are Key objects: list equality of the paths)
KeyEq(a, b) == a.path = b.path

\* A Python dict keyed by Key objects: its items in insertion order.  A slot
\* holds the looked-up key when the hashes agree and __eq__ answers True.
Slot(d, key) ==
    {i \in 1..Len(d) : KeyHash(d[i].key) = KeyHash(key) /\ KeyEq(d[i].key, key)}

DictHas(d, key) == Slot(d, key) # {}
DictGet(d, key) == d[CHOOSE i \in Slot(d, key) : TRUE].item

\* d[key] = val: an existing item keeps its place (and its key object).
DictSet(d, key, val) ==
    IF DictHas(d, key)
    THEN [i \in 1..Len(d) |-> IF i \in Slot(d, key) THEN [key |-> d[i].key, item |-> val] ELSE d[i]]
    ELSE Append(d, [key |-> key, item |-> val])

\* d.setdefault(key, val): the dict afterwards (the result is DictGet of it).
SetDefault(d, key, val) == IF DictHas(d, key) THEN d ELSE DictSet(d, key, val)

RECURSIVE pivotFrom(_, _)
pivotFrom(opts, result) ==
    IF opts = <<>> THEN result
    ELSE pivotFrom(Tail(opts),
                   DictSet(result, Key(Get(Head(opts), "loc")), Head(opts)))

pivot(opts) == pivotFrom(opts, <<>>)

\* ---------------------------------------------------------- unpivot

\* result: a dict keyed by name, as a sequence of options in insertion order.
NameSlot(result, name) == {i \in 1..Len(result) : Get(result[i], "name") = name}

RECURSIVE unpivotFrom(_, _, _)
unpivotFrom(d, i, result) ==
    IF i > Len(d) THEN [exc |-> "none", val |-> result]
    ELSE LET opt == d[i].item
             name == Get(opt, "name")
         IN IF NameSlot(result, name) # {}
            THEN Raise("RuntimeError",
                       <<S("multiple options with colliding ids found"),
                         name,
                         Get(result[CHOOSE j \in NameSlot(result, name) : TRUE], "loc"),
                         Get(opt, "loc")>>)
            ELSE unpivotFrom(d, i + 1, Append(result, opt))

\* unpivot without the check: a later option replaces the earlier one of
\* the same name.
RECURSIVE unpivotOverwriting(_)
unpivotOverwriting(d) ==
    IF d = <<>> THEN [exc |-> "none", val |-> <<>>]
    ELSE LET rest == unpivotOverwriting(SubSeq(d, 1, Len(d) - 1)).val
             opt == d[Len(d)].item
         IN [exc |-> "none",
             val |-> IF NameSlot(rest, Get(opt, "name")) # {}
                     THEN [i \in 1..Len(rest) |->
                             IF i \in NameSlot(rest, Get(opt, "name")) THEN opt ELSE rest[i]]
                     ELSE Append(rest, opt)]

unpivot(d) == unpivotFrom(d, 1, <<>>)

\* ------------------------------------------------------------------ merge

\* The types json.load builds its result from.
JsonTypes == {"dict", "list", "str", "NoneType"}

\* An attribute read obj.attr: objects of the JSON types have no data
\* attributes, so the read raises; any other object holds them by name.
getattr(obj, attr) ==
    IF TypeOf(obj) \in JsonTypes
    THEN Raise("AttributeError", <<TypeOf(obj), attr>>) @@ [val |-> JNull]
    ELSE [exc |-> "none", val |-> Get(obj, attr)]

\* `d in decls`
In(d, decls) == \E j \in 1..Len(Val(decls)) : Get(decls, j) = d

RECURSIVE appendNew(_, _)
appendNew(decls, ov) ==
    IF ov = <<>> THEN decls
    ELSE appendNew(IF In(Head(ov), decls)
                   THEN decls
                   ELSE JList(Val(decls) \o <<Head(ov)>>),
                   Tail(ov))

\* The body of `for (ok, ov) in v.value.items()` for one item: cur afterwards,
\* or the exception the statement raises.
mergeItem(cur, ok, ov) ==
    IF ok = "declarations"
    THEN IF ~Has(cur, ok) THEN Raise("KeyError", <<ok>>) @@ [val |-> cur]
         ELSE IF TypeOf(ov) = "NoneType" THEN Raise("TypeError", <<TypeOf(ov)>>) @@ [val |-> cur]
         ELSE IF Val(ov) # <<>> /\ TypeOf(Get(cur, ok)) = "NoneType"
              THEN Raise("TypeError", <<TypeOf(Get(cur, ok))>>) @@ [val |-> cur]
         ELSE [exc |-> "none", val |-> SetItem(cur, ok, appendNew(Get(cur, ok), Val(ov)))]
    ELSE IF ok = "type"
    THEN IF ov # S("_unspecified")
         THEN [exc |-> "none", val |-> SetItem(cur, ok, ov)]
         ELSE IF ~Has(cur, ok) THEN Raise("KeyError", <<ok>>) @@ [val |-> cur]
         ELSE IF Get(cur, ok) = S("_unspecified")
              THEN [exc |-> "none", val |-> SetItem(cur, ok, ov)]
              ELSE [exc |-> "none", val |-> cur]
    ELSE IF ov # JNull \/ ~Has(cur, ok) \/ Get(cur, ok) = JNull
         THEN [exc |-> "none", val |-> SetItem(cur, ok, ov)]
         ELSE [exc |-> "none", val |-> cur]

\* The items of an option in the order the loop visits them.
FieldOrder ==
    <<"name", "loc", "declarations", "type", "description", "example", "default">>

RECURSIVE mergeItems(_, _, _)
mergeItems(cur, v, i) ==
    IF i > Len(FieldOrder) THEN [exc |-> "none", val |-> cur]
    ELSE IF ~Has(v, FieldOrder[i]) THEN mergeItems(cur, v, i + 1)
    ELSE LET r == mergeItem(cur, FieldOrder[i], Get(v, FieldOrder[i]))
         IN IF r.exc # "none" THEN r ELSE mergeItems(r.val, v, i + 1)

\* The loop `for (k, v) in overrides.items()` from item i on: the options
\* dict afterwards and the exception that ended the loop, if any.
RECURSIVE mergeFrom(_, _, _)
mergeFrom(opts, ovs, i) ==
    IF i > Len(ovs) THEN [exc |-> NoExc, options |-> opts]
    ELSE LET k == ovs[i].key
             v == ovs[i].item
             opts1 == SetDefault(opts, k, v)
             cur == getattr(DictGet(opts1, k), "value")
             src == getattr(v, "value")
         IN IF cur.exc # "none"
            THEN [exc |-> Raise(cur.exc, cur.args), options |-> opts1]
            ELSE IF src.exc # "none"
            THEN [exc |-> Raise(src.exc, src.args), options |-> opts1]
            ELSE LET r == mergeItems(cur.val, src.val, 1)
                     opts2 == DictSet(opts1, k, r.val)
                 IN IF r.exc # "none"
                    THEN [exc |-> Raise(r.exc, r.args), options |-> opts2]
                    ELSE mergeFrom(opts2, ovs, i + 1)

merge(opts, ovs) == mergeFrom(opts, ovs, 1)

\* --------------------------------------------------------------- Renderer

admonitions ==
    [k \in {".warning", ".important", ".note"} |->
        IF k = ".warning" THEN "warning"
        ELSE IF k = ".important" THEN "important" ELSE "note"]

\* xml.sax.saxutils.escape, token by token.
escape(text) ==
    [i \in 1..Len(text) |->
        IF text[i] = "&" THEN "&amp;"
        ELSE IF text[i] = "<" THEN "&lt;"
        ELSE IF text[i] = ">" THEN "&gt;"
        ELSE text[i]]

\* xml.sax.saxutils.quoteattr of a value holding no quote character.
quoteattr(text) == <<"\"">> \o escape(text) \o <<"\"">>

Ok(text) == [exc |-> "none", val |-> text]

\* The methods Renderer defines; _get_method answers any other name with
\* not_supported.
RendererMethods ==
    {"text", "paragraph", "newline", "codespan", "block_code", "link", "list",
     "list_item", "block_text", "emphasis", "strong", "admonition",
     "block_quote", "command", "option", "file", "var", "env", "manpage"}

Renderer_link(link, text) ==
    IF link # <<>> /\ Head(link) = "#"
    THEN <<IF text = <<>> THEN "<xref linkend=" ELSE "<link linkend=">>
         \o quoteattr(Tail(link)) \o <<">">> \o text
         \o <<IF text = <<>> THEN "</xref>" ELSE "</link>">>
    ELSE <<"<link xlink:href=">> \o quoteattr(link) \o <<">">>
         \o (IF text = link THEN <<>> ELSE text) \o <<"</link>">>

\* Renderer.admonition with the body wrapped as it is, trailing whitespace
\* and all.
Renderer_admonitionUntrimmed(text, kind) ==
    IF kind \notin DOMAIN admonitions
    THEN Raise("NotImplementedError", <<"admonition not supported yet", kind>>)
    ELSE Ok(<<"<" \o admonitions[kind] \o ">", "<para>">> \o text
            \o <<"</para>", "</" \o admonitions[kind] \o ">">>)

Renderer_admonition(text, kind) ==
    IF kind \notin DOMAIN admonitions
    THEN Raise("NotImplementedError", <<"admonition not supported yet", kind>>)
    ELSE Ok(<<"<" \o admonitions[kind] \o ">", "<para>">> \o rstrip(text)
            \o <<"</para>", "</" \o admonitions[kind] \o ">">>)

\* One Renderer method applied to a node whose children are already
\* rendered to `text` (the engine renders children before their parent).
Renderer_call(node, text) ==
    LET name == node.type IN
    IF name \notin RendererMethods
    THEN Raise("NotImplementedError", <<"md node not supported yet", name>>)
    ELSE IF name = "text" THEN Ok(escape(node.text))
    ELSE IF name = "paragraph" THEN Ok(<<"<simpara>">> \o text \o <<"</simpara>", "\n">>)
    ELSE IF name = "newline" THEN Ok(<<"<literallayout>", "\n", "</literallayout>">>)
    ELSE IF name = "codespan" THEN Ok(<<"<literal>">> \o escape(node.text) \o <<"</literal>">>)
    ELSE IF name = "block_code"
    THEN Ok((IF node.info = <<>>
             THEN <<"<programlisting>">>
             ELSE <<"<programlisting language=">> \o quoteattr(node.info) \o <<">">>)
            \o <<"\n">> \o escape(node.text) \o <<"</programlisting>">>)
    ELSE IF name = "link" THEN Ok(Renderer_link(node.link, text))
    ELSE IF name = "list"
    THEN IF node.ordered
         THEN Raise("NotImplementedError", <<"ordered lists not supported yet">>)
         ELSE Ok(<<"<itemizedlist>", "\n">> \o text \o <<"\n", "</itemizedlist>">>)
    ELSE IF name = "list_item"
    THEN Ok(<<"<listitem>", "<para>">> \o text \o <<"</para>", "</listitem>", "\n">>)
    ELSE IF name = "block_text" THEN Ok(text)
    ELSE IF name = "emphasis" THEN Ok(<<"<emphasis>">> \o text \o <<"</emphasis>">>)
    ELSE IF name = "strong"
    THEN Ok(<<"<emphasis role=\"strong\">">> \o text \o <<"</emphasis>">>)
    ELSE IF name = "admonition" THEN Renderer_admonition(text, node.kind)
    ELSE IF name = "block_quote"
    THEN Ok(<<"<blockquote>", "<para>">> \o text \o <<"</para>", "</blockquote>">>)
    ELSE IF name = "command" THEN Ok(<<"<command>">> \o escape(node.text) \o <<"</command>">>)
    ELSE IF name = "option" THEN Ok(<<"<option>">> \o escape(node.text) \o <<"</option>">>)
    ELSE IF name = "file" THEN Ok(<<"<filename>">> \o escape(node.text) \o <<"</filename>">>)
    ELSE IF name = "var" THEN Ok(<<"<varname>">> \o escape(node.text) \o <<"</varname>">>)
    ELSE IF name = "env" THEN Ok(<<"<envar>">> \o escape(node.text) \o <<"</envar>">>)
    ELSE Ok(<<"<citerefentry>", "<refentrytitle>">> \o escape(node.page)
            \o <<"</refentrytitle>", "<manvolnum>">> \o escape(node.section)
            \o <<"</manvolnum>", "</citerefentry>">>)

\* The engine's traversal of a list of nodes: the children of a node are
\* rendered and joined, then the node's method is called on the result;
\* Renderer.finalize joins the fragments in document order ("".join(data)).
RECURSIVE finalize(_, _)
finalize(nodes, data) ==
    IF nodes = <<>> THEN Ok(data)
    ELSE LET node == Head(nodes)
             c == IF "children" \in DOMAIN node
                  THEN finalize(node.children, <<>>)
                  ELSE Ok(<<>>)
             r == IF c.exc # "none" THEN c ELSE Renderer_call(node, c.val)
         IN IF r.exc # "none" THEN r ELSE finalize(Tail(nodes), data \o r.val)

\* md(tree): the Markdown engine with this Renderer, on the tree the engine
\* parsed the text into.
md(tree) == finalize(tree, <<>>)

\* --------------------------------------------------------- convertOptions

\* print(f"error in {path}"): the line goes to sys.stdout.
ErrorLine(path) == [w |-> "print", text |-> <<"error in", " ">> \o Val(path) \o <<"\n">>]

\* convertMarkdown returning the rendered text with its own trailing
\* whitespace kept in front of the text's.
convertMarkdownUnstripped(path, text, tree) ==
    LET rendered == md(tree) IN
    IF rendered.exc # "none"
    THEN [exc |-> rendered, val |-> <<>>, rendered |-> <<>>, out |-> <<ErrorLine(path)>>]
    ELSE [exc |-> NoExc, val |-> rendered.val \o Trailer(text),
          rendered |-> rendered.val, out |-> <<>>]

\* convertMarkdown(path, text), the engine having parsed text into tree.
convertMarkdown(path, text, tree) ==
    LET rendered == md(tree) IN
    IF rendered.exc # "none"
    THEN [exc |-> rendered, val |-> <<>>, rendered |-> <<>>, out |-> <<ErrorLine(path)>>]
    ELSE [exc |-> NoExc, val |-> rstrip(rendered.val) \o Trailer(text),
          rendered |-> rendered.val, out |-> <<>>]

\* convertAsciiDoc(path, text), adoc.execute having answered `answer`: the
\* text it wrote to outfile, or the exception it raised.
convertAsciiDoc(path, text, answer) ==
    IF answer.exc # "none"
    THEN [exc |-> answer, val |-> <<>>, rendered |-> <<>>, out |-> <<ErrorLine(path)>>]
    ELSE [exc |-> NoExc, val |-> rstrip(answer.val) \o Trailer(text),
          rendered |-> answer.val, out |-> <<>>]

unwrapSimpara(s) == removesuffix(removeprefix(s, <<"<simpara>">>), <<"</simpara>">>)

optionIs(option, key, typ) ==
    /\ Has(option, key)
    /\ TypeOf(Get(option, key)) = "dict"
    /\ Has(Get(option, key), "_type")
    /\ Get(Get(option, key), "_type") = S(typ)

optionIsRawText(option, key) == Has(option, key) /\ TypeOf(Get(option, key)) = "str"

\* One conversion step of the loop body: the option afterwards, the
\* exception raised (NoExc when none), what was printed, and the calls of
\* the two converters.
Step(exc, option, out, calls) ==
    [exc |-> exc, option |-> option, out |-> out, calls |-> calls]

\* A call of a converter for the field `key`: its arguments, what the engine
\* or the bridge answered and rendered, and the exception raised or the
\* value returned.
Call(fn, key, path, text, a, r) ==
    [fn |-> fn, key |-> key, path |-> path, text |-> text, answer |-> a,
     rendered |-> r.rendered, exc |-> r.exc, val |-> r.val]

\* "Handle the `description` field."  a: what the engine or bridge answers.
convertDescription(option, a) ==
    LET name == Get(option, "name") IN
    IF name = S("_module.args")
    THEN Step(NoExc, SetItem(option, "description", JStr(<<>>)), <<>>, <<>>)
    ELSE IF optionIs(option, "description", "mdDoc")
    THEN LET text == Val(Get(Get(option, "description"), "text"))
             r == convertMarkdown(name, text, a.tree)
         IN Step(r.exc,
                 IF r.exc = NoExc
                 THEN SetItem(option, "description", JStr(r.val)) ELSE option,
                 r.out, <<Call("convertMarkdown", "description", name, text, a, r)>>)
    ELSE IF optionIs(option, "description", "asciiDoc")
    THEN LET text == Val(Get(Get(option, "description"), "text"))
             r == convertAsciiDoc(name, text, a)
         IN Step(r.exc,
                 IF r.exc = NoExc
                 THEN SetItem(option, "description", JStr(r.val)) ELSE option,
                 r.out, <<Call("convertAsciiDoc", "description", name, text, a, r)>>)
    ELSE IF optionIsRawText(option, "description")
    THEN Step(NoExc,
              SetItem(option, "description",
                      JStr(<<"<para>">> \o rstrip(Val(Get(option, "description"))) \o <<"</para>">>)),
              <<>>, <<>>)
    ELSE Step(NoExc, option, <<>>, <<>>)

LiteralDocBook(text) == JDict([_type |-> S("literalDocBook"), text |-> JStr(text)])

\* "Handle the `example` field." and "Handle the `default` field."
convertLiteral(option, key, a) ==
    LET name == Get(option, "name") IN
    IF optionIs(option, key, "literalMD")
    THEN LET text == Val(Get(Get(option, key), "text"))
             r == convertMarkdown(name, text, a.tree)
         IN Step(r.exc,
                 IF r.exc = NoExc
                 THEN SetItem(option, key, LiteralDocBook(unwrapSimpara(r.val)))
                 ELSE option,
                 r.out, <<Call("convertMarkdown", key, name, text, a, r)>>)
    ELSE IF optionIs(option, key, "literalAsciiDoc")
    THEN LET text == Val(Get(Get(option, key), "text"))
             r == convertAsciiDoc(name, text, a)
         IN Step(r.exc,
                 IF r.exc = NoExc
                 THEN SetItem(option, key,
                              LiteralDocBook(unwrapSimpara(unwrapSimpara(r.val))))
                 ELSE option,
                 r.out, <<Call("convertAsciiDoc", key, name, text, a, r)>>)
    ELSE Step(NoExc, option, <<>>, <<>>)

\* `except Exception as e: raise Exception(f"Failed to render option
\* {name}: {str(e)}")` around the three steps of the loop body.
Wrapped(name, e) ==
    IF e = NoExc THEN NoExc
    ELSE Raise("Exception", <<"Failed to render option", name, e>>)

\* ------------------------------------------------------------------ bounds

\* The longest catalog read from a file.
MaxCatalog == 2
\* The longest override catalog of the merge inputs.
MaxOverride == 1
\* The longest run of trailing whitespace of a sample text.
MaxTrailer == 1

\* ------------------------------------------------------------------ inputs

RECURSIVE SeqsUpTo(_, _)
SeqsUpTo(set, n) ==
    IF n = 0 THEN {<<>>}
    ELSE LET shorter == SeqsUpTo(set, n - 1)
         IN shorter \cup {Append(q, x) : q \in {r \in shorter : Len(r) = n - 1}, x \in set}

Trailers == SeqsUpTo({" ", "\n"}, MaxTrailer)

\* The character U+0060, which a TLA+ string cannot hold.
Backtick == "U+0060"

Text(x) == [type |-> "text", text |-> x]
Para(x) == [type |-> "paragraph", children |-> <<Text(x)>>]
Newline == [type |-> "newline"]
Admonition(kind, x) == [type |-> "admonition", kind |-> kind, children |-> <<Para(x)>>]
List(ordered, x) ==
    [type |-> "list", ordered |-> ordered,
     children |-> <<[type |-> "list_item",
                     children |-> <<[type |-> "block_text", children |-> <<Text(x)>>]>>]>>]

\* Markdown texts and the trees the engine parses them into.  Trailing
\* whitespace is varied on the empty text and on a one-paragraph text; the
\* engine may or may not report the trailing blank as a `newline` node.
MdSamples ==
    {[text |-> w, tree |-> <<>>] : w \in Trailers}
    \cup {[text |-> w, tree |-> <<Newline>>] : w \in Trailers \ {<<>>}}
    \cup {[text |-> <<"x">> \o w, tree |-> <<Para(<<"x">>)>>] : w \in Trailers}
    \cup {[text |-> <<"x">> \o w, tree |-> <<Para(<<"x">>), Newline>>] : w \in Trailers \ {<<>>}}
    \cup {[text |-> <<"::: {.warning}", "\n", "Do not do X.", "\n", ":::", "\n">>,
           tree |-> <<Admonition(".warning", <<"Do not do X.">>)>>],
          [text |-> <<"::: {.note}", "\n", "x", "\n", ":::">>,
           tree |-> <<Admonition(".note", <<"x">>)>>],
          [text |-> <<"::: {.tip}", "\n", "x", "\n", ":::", "\n">>,
           tree |-> <<Admonition(".tip", <<"x">>)>>],
          [text |-> <<"1.", " ", "x">>, tree |-> <<List(TRUE, <<"x">>)>>],
          [text |-> <<"-", " ", "x", "\n">>, tree |-> <<List(FALSE, <<"x">>)>>],
          [text |-> <<"#", " ", "x">>,
           tree |-> <<[type |-> "heading", children |-> <<Text(<<"x">>)>>]>>],
          [text |-> <<"~~~", "\n", "x", "\n", "~~~", "\n">>,
           tree |-> <<[type |-> "block_code", text |-> <<"x", "\n">>, info |-> <<>>]>>],
          [text |-> <<"a", " ", "<", " ", "b", "\n", "\n", "{file}", Backtick, "/etc/foo.conf", Backtick>>,
           tree |-> <<Para(<<"a", " ", "<", " ", "b">>), Newline,
                      [type |-> "paragraph",
                       children |-> <<[type |-> "file", text |-> <<"/etc/foo.conf">>]>>]>>],
          [text |-> <<"[Section](#sec-id)">>,
           tree |-> <<[type |-> "paragraph",
                       children |-> <<[type |-> "link", link |-> <<"#", "sec-id">>,
                                       children |-> <<Text(<<"Section">>)>>]>>]>>]}

MdTexts == {m.text : m \in MdSamples}
Trees(text) == {m.tree : m \in {n \in MdSamples : n.text = text}}

\* Markdown texts given to `example` and `default`.
LiteralTexts ==
    {w : w \in Trailers} \cup {<<"x">> \o w : w \in Trailers}
    \cup {<<"1.", " ", "x">>, <<"~~~", "\n", "x", "\n", "~~~", "\n">>}

\* AsciiDoc texts, and what adoc.execute may answer: the bridge is opaque,
\* any of these for any text.
AdocTexts == {<<"x">> \o w : w \in Trailers} \cup {<<"\n">>}

AdocAnswers ==
    {Ok(<<>>),
     Ok(<<"<simpara>", "x", "</simpara>">>),
     Ok(<<"<simpara>", "x", "</simpara>", "\n">>),
     Ok(<<"<simpara>", "x", "</simpara>", "\n", "<simpara>", "y", "</simpara>", "\n", "\n">>),
     Raise("AsciiDocError", <<"malformed">>)}

Tagged(typ, text) == JDict([_type |-> S(typ), text |-> JStr(text)])

\* An option with nothing but its name and its loc.
Bare(name) == JDict([name |-> S(name), loc |-> JList(<<S(name)>>)])

With(option, key, val) == SetItem(option, key, val)

\* Options whose documentation fields exercise the converters.
ConvOptions(name) ==
    {With(Bare(name), "description", Tagged("mdDoc", t)) : t \in MdTexts}
    \cup {With(Bare(name), "description", Tagged("asciiDoc", t)) : t \in AdocTexts}
    \cup {With(Bare(name), "description", JStr(t)) : t \in {<<"x">>, <<"x", "\n">>}}
    \cup {Bare(name), With(Bare(name), "description", JNull)}
    \cup {With(Bare(name), "example", Tagged("literalMD", t)) : t \in LiteralTexts}
    \cup {With(Bare(name), "example", Tagged("literalAsciiDoc", t)) : t \in AdocTexts}
    \cup {With(Bare(name), "example", Tagged("literalExpression", <<"x">>))}
    \cup {With(Bare(name), "default", Tagged("literalMD", t)) :
            t \in {<<"x">>, <<"x", "\n">>, <<"1.", " ", "x">>}}
    \cup {With(Bare(name), "default", Tagged("literalAsciiDoc", t)) : t \in {<<"x">>}}
    \cup {With(With(With(Bare(name),
               "description", Tagged("mdDoc", <<"x">>)),
               "example", Tagged("literalMD", e)),
               "default", Tagged("literalAsciiDoc", <<"x">>)) :
            e \in {<<"x">>, <<"1.", " ", "x">>}}

\* The options that follow the first one of a conversion catalog.
TailOptions(name) ==
    {With(Bare(name), "description", Tagged("mdDoc", t)) : t \in {<<"x">>, <<"#", " ", "x">>}}
    \cup {With(Bare(name), "example", Tagged("literalAsciiDoc", <<"x">>))}

ModuleArgs ==
    JDict([name |-> S("_module.args"), loc |-> JList(<<S("_module"), S("args")>>),
           description |-> Tagged("mdDoc", <<"#", " ", "x">>)])

RECURSIVE ConvCatalogs(_)
ConvCatalogs(n) ==
    IF n = 0 THEN {<<>>}
    ELSE IF n = 1 THEN {<<>>, <<ModuleArgs>>} \cup {<<o>> : o \in ConvOptions("opt1")}
    ELSE LET shorter == ConvCatalogs(n - 1)
         IN shorter \cup {Append(q, o) : q \in {r \in shorter : Len(r) = n - 1},
                                         o \in TailOptions("opt" \o ToString(n))}

Opt(name, loc, type, declarations) ==
    JDict([name |-> S(name), loc |-> JList(loc), type |-> type,
           declarations |-> declarations])

\* Options whose keys, names, types and declarations exercise pivot, the
\* merge and unpivot: equal and unequal locs (two of them with equal
\* hashes), equal names under unequal locs, null items, repeated
\* declarations.
MergeOptions ==
    {With(Opt("a", <<S("a")>>, S("_unspecified"), JList(<<S("x.nix")>>)),
          "description", S("text")),
     Opt("a", <<S("a")>>, S("bool"), JList(<<S("y.nix")>>)),
     With(Opt("a", <<S("a")>>, JNull, JNull), "description", JNull),
     Opt("a2", <<S("a")>>, S("_unspecified"),
         JList(<<S("y.nix"), S("x.nix"), S("y.nix")>>)),
     Opt("b", <<S("b")>>, S("bool"), JList(<<S("x.nix"), S("x.nix")>>)),
     Opt("a", <<S("b")>>, S("_unspecified"), JList(<<S("y.nix")>>)),
     Opt("ab", <<S("a"), S("b")>>, S("int"), JList(<<>>)),
     Opt("ba", <<S("b"), S("a")>>, S("int"), JList(<<>>))}

\* The records of the merge scenario: they have no name.
Scenario5 ==
    [primary |-> <<JDict([loc |-> JList(<<S("a")>>), type |-> S("_unspecified"),
                          declarations |-> JList(<<S("x.nix")>>)])>>,
     override |-> <<JDict([loc |-> JList(<<S("a")>>), type |-> S("bool"),
                           declarations |-> JList(<<S("y.nix")>>)])>>]

\* The two files of a run: [primary, override].
Inputs ==
    {Scenario5} \cup
    {[primary |-> p, override |-> <<>>] : p \in ConvCatalogs(MaxCatalog)}
    \cup {[primary |-> p, override |-> o] :
            p \in SeqsUpTo(MergeOptions, MaxCatalog),
            o \in SeqsUpTo(MergeOptions, MaxOverride)}

\* ----------------------------------------------------------------- the run

VARIABLES
    primary,    \* json.load of the file sys.argv[1]
    override,   \* json.load of the file sys.argv[2]
    options,    \* pivot(primary), then the merged mapping
    overrides,  \* pivot(override)
    catalog,    \* what unpivot returned: the options convertOptions walks
    idx,        \* the options of catalog already converted
    calls,      \* the converter calls of the latest step of the loop body
    stdout,     \* what was written to sys.stdout, in order
    stderr,     \* what was written to sys.stderr, in order
    exc,        \* the exception that is propagating, NoExc when none
    pc          \* where the run is

vars == <<primary, override, options, overrides, catalog, idx, calls,
          stdout, stderr, exc, pc>>

Init ==
    /\ \E in \in Inputs : primary = in.primary /\ override = in.override
    /\ options = <<>>
    /\ overrides = <<>>
    /\ catalog = <<>>
    /\ idx = 0
    /\ calls = <<>>
    /\ stdout = <<>>
    /\ stderr = <<>>
    /\ exc = NoExc
    /\ pc = "load"

\* options = pivot(json.load(...)); overrides = pivot(json.load(...))
Load ==
    /\ pc = "load"
    /\ options' = pivot(primary)
    /\ overrides' = pivot(override)
    /\ pc' = "merge"
    /\ UNCHANGED <<primary, override, catalog, idx, calls, stdout, stderr, exc>>

\* "merge both descriptions": the whole loop over overrides.items().
Merge ==
    /\ pc = "merge"
    /\ LET r == merge(options, overrides)
       IN /\ options' = r.options
          /\ exc' = r.exc
          /\ pc' = IF r.exc = NoExc THEN "unpivot" ELSE "raised"
    /\ UNCHANGED <<primary, override, overrides, catalog, idx, calls, stdout, stderr>>

\* unpivot(options), the first argument evaluated for json.dump.
Unpivot ==
    /\ pc = "unpivot"
    /\ LET r == unpivot(options)
       IN IF r.exc = "none"
          THEN catalog' = r.val /\ exc' = NoExc /\ pc' = "description"
          ELSE catalog' = catalog /\ exc' = Raise(r.exc, r.args) /\ pc' = "raised"
    /\ UNCHANGED <<primary, override, options, overrides, idx, calls, stdout, stderr>>

NoAnswer == [exc |-> "none", val |-> <<>>, tree |-> <<>>]

\* What the Markdown engine or the AsciiDoc bridge can answer for a field.
Answers(option, key, mdType, adocType) ==
    IF optionIs(option, key, mdType)
    THEN {[tree |-> t] : t \in Trees(Val(Get(Get(option, key), "text")))}
    ELSE IF optionIs(option, key, adocType) THEN AdocAnswers
    ELSE {NoAnswer}

\* A step of the loop body of convertOptions on catalog[idx + 1], r being
\* what the step computed.  The options are the dict objects the merged
\* mapping holds, changed in place.
LoopStep(r, next) ==
    /\ catalog' = [catalog EXCEPT ![idx + 1] = r.option]
    /\ options' = DictSet(options, Key(Get(r.option, "loc")), r.option)
    /\ calls' = r.calls
    /\ stdout' = stdout \o r.out
    /\ exc' = Wrapped(Get(r.option, "name"), r.exc)
    /\ pc' = IF r.exc = NoExc THEN next ELSE "raised"
    /\ UNCHANGED <<primary, override, overrides, stderr>>

\* `for option in options`, "Handle the `description` field."
ConvertDescription ==
    /\ pc = "description"
    /\ idx < Len(catalog)
    /\ \E a \in Answers(catalog[idx + 1], "description", "mdDoc", "asciiDoc") :
          LoopStep(convertDescription(catalog[idx + 1], a), "example")
    /\ idx' = idx

\* "Handle the `example` field."
ConvertExample ==
    /\ pc = "example"
    /\ \E a \in Answers(catalog[idx + 1], "example", "literalMD", "literalAsciiDoc") :
          LoopStep(convertLiteral(catalog[idx + 1], "example", a), "default")
    /\ idx' = idx

\* "Handle the `default` field.", the end of the loop body.
ConvertDefault ==
    /\ pc = "default"
    /\ \E a \in Answers(catalog[idx + 1], "default", "literalMD", "literalAsciiDoc") :
          /\ LoopStep(convertLiteral(catalog[idx + 1], "default", a), "description")
          /\ idx' = IF pc' = "raised" THEN idx ELSE idx + 1

\* json.dump(list(...), fp=sys.stdout, ensure_ascii=False)
Dump ==
    /\ pc = "description"
    /\ idx = Len(catalog)
    /\ stdout' = Append(stdout, [w |-> "json.dump", obj |-> catalog])
    /\ pc' = "dumped"
    /\ UNCHANGED <<primary, override, options, overrides, catalog, idx, calls, stderr, exc>>

\* The end of the process: an exception nothing caught is reported by the
\* interpreter on sys.stderr and the exit status is 1.
Exit ==
    /\ pc \in {"dumped", "raised"}
    /\ stderr' = IF pc = "raised"
                 THEN Append(stderr, [w |-> "traceback", exc |-> exc])
                 ELSE stderr
    /\ pc' = IF pc = "raised" THEN "exit1" ELSE "exit0"
    /\ UNCHANGED <<primary, override, options, overrides, catalog, idx, calls, stdout, exc>>

Next ==
    \/ Load
    \/ Merge
    \/ Unpivot
    \/ ConvertDescription
    \/ ConvertExample
    \/ ConvertDefault
    \/ Dump
    \/ Exit

Spec == Init /\ [][Next]_vars

\* ------------------------------------------------------------- properties

\* The exceptions the merge loop can raise.
MergeRaised == exc.exc \in {"AttributeError", "KeyError", "TypeError"}

\* The state the Merge step leaves.
AfterMerge == pc = "unpivot" \/ (pc = "raised" /\ MergeRaised)

\* The pairs <<i, j>>: item i of the pivoted primary catalog and item j of
\* the pivoted override catalog have equal keys.
InBoth ==
    {b \in (1..Len(pivot(primary))) \X (1..Len(overrides)) :
        KeyEq(pivot(primary)[b[1]].key, overrides[b[2]].key)}

PrimaryOf(b) == pivot(primary)[b[1]].item
OverrideOf(b) == overrides[b[2]].item
MergedOf(b) == DictGet(options, overrides[b[2]].key)

\* C1: after the merge, for every key in both catalogs and every item of
\* the override record whose value is null (type and declarations included),
\* a non-null value of the primary record is still the merged record's value,
\* and the merge has raised nothing.
C1_NullOverrideKeepsPrimary ==
    AfterMerge =>
        \A b \in InBoth : \A f \in DOMAIN Val(OverrideOf(b)) :
            (/\ Get(OverrideOf(b), f) = JNull
             /\ Has(PrimaryOf(b), f)
             /\ Get(PrimaryOf(b), f) # JNull)
            => /\ ~MergeRaised
               /\ Has(MergedOf(b), f)
               /\ Get(MergedOf(b), f) = Get(PrimaryOf(b), f)

NoRepeats(q) == \A i, j \in 1..Len(q) : q[i] = q[j] => i = j

\* The entries of od that are neither in seen nor earlier in od, in od's order.
RECURSIVE NewEntries(_, _)
NewEntries(seen, od) ==
    IF od = <<>> THEN <<>>
    ELSE IF \E i \in 1..Len(seen) : seen[i] = Head(od)
    THEN NewEntries(seen, Tail(od))
    ELSE <<Head(od)>> \o NewEntries(Append(seen, Head(od)), Tail(od))

IsList(option, key) == Has(option, key) /\ TypeOf(Get(option, key)) = "list"

\* C2: after the merge, for every key in both catalogs, the merged
\* declarations hold no file reference twice, start with the primary's
\* entries in the primary's order and go on with exactly the override's
\* entries that were not present, in the override's order; repeated entries
\* in either list included.
C2_DeclarationsUnion ==
    AfterMerge =>
        \A b \in InBoth :
            (IsList(PrimaryOf(b), "declarations") /\ IsList(OverrideOf(b), "declarations"))
            => /\ ~MergeRaised
               /\ IsList(MergedOf(b), "declarations")
               /\ NoRepeats(Val(Get(MergedOf(b), "declarations")))
               /\ Val(Get(MergedOf(b), "declarations"))
                    = Val(Get(PrimaryOf(b), "declarations"))
                      \o NewEntries(Val(Get(PrimaryOf(b), "declarations")),
                                    Val(Get(OverrideOf(b), "declarations")))

IsStr(option, key) == Has(option, key) /\ TypeOf(Get(option, key)) = "str"

\* C3: after the merge, for every key in both catalogs, the merged type is
\* the override's type, unless the override's is "_unspecified" and the
\* primary's is not, and then the primary's; and the records of the merge
\* scenario give {loc: ["a"], type: "bool", declarations: ["x.nix", "y.nix"]}
\* without error.
C3_TypeMerge ==
    AfterMerge =>
        /\ \A b \in InBoth :
              (IsStr(PrimaryOf(b), "type") /\ IsStr(OverrideOf(b), "type"))
              => /\ ~MergeRaised
                 /\ Has(MergedOf(b), "type")
                 /\ Get(MergedOf(b), "type")
                      = IF /\ Get(OverrideOf(b), "type") = S("_unspecified")
                           /\ Get(PrimaryOf(b), "type") # S("_unspecified")
                        THEN Get(PrimaryOf(b), "type")
                        ELSE Get(OverrideOf(b), "type")
        /\ (primary = Scenario5.primary /\ override = Scenario5.override)
           => /\ ~MergeRaised
              /\ Len(options) = 1
              /\ options[1].item
                   = JDict([loc |-> JList(<<S("a")>>), type |-> S("bool"),
                            declarations |-> JList(<<S("x.nix"), S("y.nix")>>)])

\* The pairs of items of the merged mapping with unequal locs and equal names.
Colliding ==
    {b \in (1..Len(options)) \X (1..Len(options)) :
        /\ b[1] < b[2]
        /\ Get(options[b[1]].item, "loc") # Get(options[b[2]].item, "loc")
        /\ Get(options[b[1]].item, "name") = Get(options[b[2]].item, "name")}

\* C4: once unpivot has run on the merged mapping: if two of its records
\* have unequal locs and the same name, the run has failed with the
\* collision error, which reports the two locs, and no record has been
\* converted or written; if not, unpivot has returned every record of the
\* mapping exactly once.
C4_UnpivotCollision ==
    (pc \notin {"load", "merge", "unpivot"} /\ ~MergeRaised) =>
        IF Colliding # {}
        THEN /\ pc \in {"raised", "exit1"}
             /\ exc.exc = "RuntimeError"
             /\ \E b \in Colliding :
                   /\ exc.args[3] = Get(options[b[1]].item, "loc")
                   /\ exc.args[4] = Get(options[b[2]].item, "loc")
             /\ options = pivot(primary)
             /\ catalog = <<>> /\ idx = 0 /\ calls = <<>> /\ stdout = <<>>
        ELSE /\ exc.exc # "RuntimeError"
             /\ Len(catalog) = Len(options)
             /\ \A i \in 1..Len(options) : catalog[i] = options[i].item

\* C4, its case: the merged mapping has two records, they collide, and the
\* run has stopped on the collision error.
C4_Witness ==
    /\ pc = "raised"
    /\ exc.exc = "RuntimeError"
    /\ Len(options) = 2
    /\ Colliding = {<<1, 2>>}

\* The locs of the records of the two files.
Locs(file) == {Get(file[i], "loc") : i \in 1..Len(file)}

\* C5: after the merge, the merged mapping has exactly one record for every
\* loc of either catalog, a key of the override catalog alone has the
\* override's record unchanged, a key of the primary catalog alone has the
\* primary's record unchanged, and the merge has raised nothing.
C5_IdentityKeyedMerge ==
    AfterMerge =>
        /\ ~MergeRaised
        /\ Len(options) = Cardinality(Locs(primary) \cup Locs(override))
        /\ \A l \in Locs(primary) \cup Locs(override) :
              /\ Cardinality({i \in 1..Len(options) : Get(options[i].item, "loc") = l}) = 1
              /\ (l \notin Locs(primary))
                 => DictGet(options, Key(l)) = DictGet(overrides, Key(l))
              /\ (l \notin Locs(override))
                 => DictGet(options, Key(l)) = DictGet(pivot(primary), Key(l))

\* C6: whenever convertMarkdown or convertAsciiDoc returns, the trailing
\* whitespace of the returned text is the trailing whitespace of the text
\* it was given, the empty and the all-whitespace text included.
C6_TrailerPreserved ==
    \A i \in 1..Len(calls) :
        calls[i].exc = NoExc => Trailer(calls[i].val) = Trailer(calls[i].text)

\* C6, its case: a converter returned for a text that is nothing but
\* whitespace, what was rendered ending in other whitespace than the text.
C6_Witness ==
    \E i \in 1..Len(calls) :
        /\ calls[i].exc = NoExc
        /\ calls[i].text # <<>>
        /\ rstrip(calls[i].text) = <<>>
        /\ Trailer(calls[i].rendered) # Trailer(calls[i].text)

\* What unpivot returned, before any conversion.
Unconverted == unpivot(merge(pivot(primary), pivot(override)).options).val

\* C7: something is on standard output only once the merge, unpivot and the
\* conversion of every record are done without error; and when the
\* conversion of a record fails, the error carries that record's name, no
\* later record is converted and nothing is on standard output.
C7_AllOrNothing ==
    /\ stdout # <<>> =>
          /\ pc \in {"dumped", "exit0"}
          /\ exc = NoExc
          /\ idx = Len(catalog)
    /\ exc.exc = "Exception" =>
          /\ exc.args[2] = Get(catalog[idx + 1], "name")
          /\ \A j \in (idx + 2)..Len(catalog) : catalog[j] = Unconverted[j]
          /\ stdout = <<>>

IsErrorLine(written, path) == written.w = "print" /\ written.text = ErrorLine(path).text

\* C8: when a Markdown or AsciiDoc conversion has failed, the line naming
\* the failing record is on standard error, and not on standard output,
\* from the moment the error propagates.
C8_DiagnosticOnStderr ==
    \A i \in 1..Len(calls) :
        calls[i].exc # NoExc =>
            /\ \E k \in 1..Len(stderr) : IsErrorLine(stderr[k], calls[i].path)
            /\ ~\E k \in 1..Len(stdout) : IsErrorLine(stdout[k], calls[i].path)

\* The calls of convertMarkdown whose text the engine parsed into a single
\* admonition.
AdmonitionCalls ==
    {i \in 1..Len(calls) :
        /\ calls[i].fn = "convertMarkdown"
        /\ Len(calls[i].answer.tree) = 1
        /\ calls[i].answer.tree[1].type = "admonition"}

\* The tag that corresponds to a kind.
TagOfKind(kind) ==
    IF kind = ".warning" THEN "warning"
    ELSE IF kind = ".important" THEN "important" ELSE "note"

\* What C9 says of every admonition, whatever the text: the tag of a
\* supported kind around one <para> holding the rendered body without its
\* trailing whitespace, and a not-supported error for any other kind.
AdmonitionRule(i) ==
    LET node == calls[i].answer.tree[1] IN
    /\ node.kind \in {".warning", ".important", ".note"} =>
          /\ calls[i].exc = NoExc
          /\ calls[i].rendered
               = <<"<" \o TagOfKind(node.kind) \o ">", "<para>">>
                 \o rstrip(md(node.children).val)
                 \o <<"</para>", "</" \o TagOfKind(node.kind) \o ">">>
    /\ node.kind \notin {".warning", ".important", ".note"} =>
          /\ calls[i].exc # NoExc
          /\ calls[i].exc.exc = "NotImplementedError"

\* The text "::: {.warning}\nDo not do X.\n:::\n".
WarningText == <<"::: {.warning}", "\n", "Do not do X.", "\n", ":::", "\n">>

\* C9: an admonition of kind .warning, .important or .note is rendered as
\* its tag around one <para> holding the rendered body without its trailing
\* whitespace; the text "::: {.warning}\nDo not do X.\n:::\n" is rendered as
\* <warning><para>Do not do X.</para></warning>; an admonition of another
\* kind fails as not supported.
C9_AdmonitionRendering ==
    \A i \in AdmonitionCalls :
        /\ AdmonitionRule(i)
        /\ calls[i].text = WarningText =>
              /\ calls[i].exc = NoExc
              /\ calls[i].rendered
                   = <<"<warning>", "<para>", "Do not do X.", "</para>", "</warning>">>

\* C9 as amended: the same, the text "::: {.warning}\nDo not do X.\n:::\n"
\* being rendered as
\* <warning><para><simpara>Do not do X.</simpara></para></warning>, the
\* body's paragraph keeping the <simpara> element Renderer.paragraph wraps
\* it in.
C9_AdmonitionRenderingAmended ==
    \A i \in AdmonitionCalls :
        /\ AdmonitionRule(i)
        /\ calls[i].text = WarningText =>
              /\ calls[i].exc = NoExc
              /\ calls[i].rendered
                   = <<"<warning>", "<para>", "<simpara>", "Do not do X.", "</simpara>",
                       "</para>", "</warning>">>

\* C9, its case: convertMarkdown has returned for the text
\* "::: {.warning}\nDo not do X.\n:::\n".
C9_Witness ==
    \E i \in AdmonitionCalls : calls[i].text = WarningText /\ calls[i].exc = NoExc

\* The option the latest step of the loop body worked on.
Current == catalog[IF pc \in {"example", "default"} THEN idx + 1 ELSE idx]

\* text is one <simpara> element and nothing else.
SingleParagraph(text) ==
    /\ Len(text) >= 2
    /\ text[1] = "<simpara>"
    /\ text[Len(text)] = "</simpara>"
    /\ \A k \in 2..(Len(text) - 1) : text[k] \notin {"<simpara>", "</simpara>"}

\* C10: after the conversion of an `example` or `default` tagged literalMD
\* or literalAsciiDoc, the field is tagged literalDocBook and, when what was
\* rendered is a single paragraph, its text has neither the opening nor the
\* closing <simpara> tag, whatever whitespace the given text ends in.
C10_LiteralUnwrapped ==
    \A i \in 1..Len(calls) :
        (calls[i].exc = NoExc /\ calls[i].key \in {"example", "default"}) =>
            /\ optionIs(Current, calls[i].key, "literalDocBook")
            /\ SingleParagraph(rstrip(calls[i].rendered)) =>
                  \A k \in 1..Len(Val(Get(Get(Current, calls[i].key), "text"))) :
                      Val(Get(Get(Current, calls[i].key), "text"))[k]
                          \notin {"<simpara>", "</simpara>"}

====
